---- MODULE Spec2Model ----
(***************************************************************************)
(* Real-Time-Chat-App backend: the Socket.io presence map and its          *)
(* getOnlineUsers broadcast (backend/src/lib/socket.js), the message       *)
(* controllers (backend/src/controllers/message.controllers.js) and the    *)
(* signup controller (backend/src/controllers/auth.controllers.js).        *)
(***************************************************************************)
EXTENDS Integers, Sequences, FiniteSets, TLC

VARIABLES
    userSocketMap,  \* socket.js:27   the object {userId: socketId}, as its entry list
    sockets,        \* every socket of the server: its state and handshake userId
    inbox,          \* per socket, the getOnlineUsers events its client received
    emitted,        \* every io.emit("getOnlineUsers", ...) so far, in order
    events,         \* the connection / disconnect events handled so far, in order
    users,          \* the User collection
    messages,       \* the Message collection
    req,            \* the HTTP request handled last
    res,            \* the response to it
    now,            \* the server clock, in days
    jar,            \* the jwt cookie the client's browser holds
    loggedOut,      \* the token the client held when it last logged out
    signups         \* the signup requests in flight, one per connection

vars == <<userSocketMap, sockets, inbox, emitted, events, users, messages, req, res,
          now, jar, loggedOut, signups>>
presenceVars == <<userSocketMap, sockets, inbox, emitted, events>>
sessionVars == <<now, jar, loggedOut>>
httpVars == <<users, messages, req, res, now, jar, loggedOut, signups>>

(***************************************************************************)
(* Bounds                                                                  *)
(***************************************************************************)
MaxSockets == 3     \* sockets opened during a run
MaxMessages == 2    \* records the Message collection may hold
MaxClock == 8       \* days the clock may advance

(***************************************************************************)
(* JavaScript values                                                       *)
(***************************************************************************)
undefined == "<undefined>"                  \* the absent value
Truthy(v) == v # undefined /\ v # ""        \* if (v) for strings
ToPropertyKey(v) == IF v = undefined THEN "undefined" ELSE v

Range(seq) == {seq[i] : i \in 1..Len(seq)}
Has(obj, f) == f \in DOMAIN obj                     \* the field is not undefined
EmptyObject == [f \in {} |-> undefined]
Procs == {1, 2}                                     \* connections sending a signup
Last(seq) == seq[Len(seq)]

(***************************************************************************)
(* A plain object as the list of its own entries, in insertion order.      *)
(***************************************************************************)
HasKey(obj, k) == \E i \in 1..Len(obj) : obj[i].key = k

\* return userSocketMap[userId]
ObjGet(obj, k) ==
    IF HasKey(obj, k)
    THEN obj[CHOOSE i \in 1..Len(obj) : obj[i].key = k].value
    ELSE undefined

\* a store that adds an entry without replacing the one already there
ObjSetKeepingOld(obj, k, v) == Append(obj, [key |-> k, value |-> v])

\* userSocketMap[userId] = socket.id
ObjSet(obj, k, v) ==
    IF HasKey(obj, k)
    THEN [i \in 1..Len(obj) |->
            IF obj[i].key = k THEN [key |-> k, value |-> v] ELSE obj[i]]
    ELSE Append(obj, [key |-> k, value |-> v])

\* a delete that removes nothing
ObjDeleteNothing(obj, k) == obj

\* delete userSocketMap[userId]
ObjDelete(obj, k) == SelectSeq(obj, LAMBDA e : e.key # k)

\* Object.keys(userSocketMap)
ObjectKeys(obj) == [i \in 1..Len(obj) |-> obj[i].key]

getReceiverSocketId(userId) == ObjGet(userSocketMap, ToPropertyKey(userId))

(***************************************************************************)
(* Presence: sockets, handshake, broadcast                                 *)
(***************************************************************************)
SocketNames == <<"s1", "s2", "s3", "s4", "s5", "s6">>
SocketNums == 1..MaxSockets
SocketId(n) == SocketNames[n]                       \* socket.id
UserIds == {"u1", "u2", "u3"}                       \* ObjectIds (route parameter :id)
Callers == {"u1", "u2"}                             \* req.user._id of a signed-in user
\* socket.handshake.query.userId: any string the client puts in the query
\* (the text "undefined" included), or undefined when the query has no userId
HandshakeIds == {"u1", "u2", "undefined", undefined}

ConnectedSockets == {n \in SocketNums : sockets[n].status = "connected"}

\* an emit that reaches every connected client but the one whose event it is
IoEmitToOthers(payload, conn, from) ==
    /\ emitted' = Append(emitted, payload)
    /\ inbox' = [n \in SocketNums |->
                    IF n \in conn \ {from}
                    THEN Append(inbox[n], [seq |-> Len(emitted) + 1, payload |-> payload])
                    ELSE inbox[n]]

\* io.emit("getOnlineUsers", payload): to all the connected clients
IoEmit(payload, conn, from) ==
    /\ emitted' = Append(emitted, payload)
    /\ inbox' = [n \in SocketNums |->
                    IF n \in conn
                    THEN Append(inbox[n], [seq |-> Len(emitted) + 1, payload |-> payload])
                    ELSE inbox[n]]

\* a connection handler that emits the key list before it stores the entry
OnConnectionEmitFirst(map, sid, userId) ==
    [map |-> IF Truthy(userId) THEN ObjSet(map, ToPropertyKey(userId), sid) ELSE map,
     payload |-> ObjectKeys(map)]

\* io.on("connection"): the map update and the payload it emits
OnConnection(map, sid, userId) ==
    LET m == IF Truthy(userId) THEN ObjSet(map, ToPropertyKey(userId), sid) ELSE map
    IN  [map |-> m, payload |-> ObjectKeys(m)]

\* a disconnect handler that emits the key list before it deletes the entry
OnDisconnectEmitFirst(map, userId) ==
    [map |-> ObjDelete(map, ToPropertyKey(userId)), payload |-> ObjectKeys(map)]

\* socket.on("disconnect"): the map update and the payload it emits
OnDisconnect(map, userId) ==
    LET m == ObjDelete(map, ToPropertyKey(userId))
    IN  [map |-> m, payload |-> ObjectKeys(m)]

\* A client connects: the server runs the "connection" callback for a fresh socket.
Connection(n, userId) ==
    /\ sockets[n].status = "idle"
    /\ \A k \in SocketNums : k < n => sockets[k].status # "idle"
    /\ sockets' = [sockets EXCEPT ![n] = [status |-> "connected", userId |-> userId]]
    /\ LET r == OnConnection(userSocketMap, SocketId(n), userId)
       IN  /\ userSocketMap' = r.map
           /\ IoEmit(r.payload, ConnectedSockets \cup {n}, n)
    /\ events' = Append(events, [type |-> "connection", sock |-> n, userId |-> userId])
    /\ UNCHANGED httpVars

\* The transport of socket n closes: the socket has left the namespace when its
\* "disconnect" callback runs with the userId the connection callback captured.
Disconnect(n) ==
    /\ sockets[n].status = "connected"
    /\ sockets' = [sockets EXCEPT ![n].status = "disconnected"]
    /\ LET r == OnDisconnect(userSocketMap, sockets[n].userId)
       IN  /\ userSocketMap' = r.map
           /\ IoEmit(r.payload, ConnectedSockets \ {n}, n)
    /\ events' = Append(events, [type |-> "disconnect", sock |-> n,
                                 userId |-> sockets[n].userId])
    /\ UNCHANGED httpVars

InitPresence ==
    /\ userSocketMap = <<>>
    /\ sockets = [n \in SocketNums |-> [status |-> "idle", userId |-> undefined]]
    /\ inbox = [n \in SocketNums |-> <<>>]
    /\ emitted = <<>>
    /\ events = <<>>

InitHttp ==
    /\ users = <<>>
    /\ messages = <<>>
    /\ req = [op |-> "none"]
    /\ res = [status |-> 0]
    /\ now = 0
    /\ jar = EmptyObject
    /\ loggedOut = {}
    /\ signups = [p \in Procs |-> [pc |-> "idle"]]

Init == InitPresence /\ InitHttp

NextPresence ==
    \/ \E n \in SocketNums, userId \in HandshakeIds : Connection(n, userId)
    \/ \E n \in SocketNums : Disconnect(n)

SpecPresence == Init /\ [][NextPresence]_vars
(***************************************************************************)
(* Properties of the presence tracker                                      *)
(***************************************************************************)
KeySet(obj) == {obj[i].key : i \in 1..Len(obj)}
EntrySet(obj) == {obj[i] : i \in 1..Len(obj)}
DisconnectStep(n) == sockets[n].status = "connected" /\ sockets'[n].status = "disconnected"
OtherSocketOf(n) ==
    {m \in SocketNums \ {n} : sockets[m].status = "connected"
                              /\ sockets[m].userId = sockets[n].userId}
ConnIdx(n) == CHOOSE i \in 1..Len(events) :
                  events[i].type = "connection" /\ events[i].sock = n
DiscIdx(n) ==
    IF sockets[n].status = "disconnected"
    THEN CHOOSE i \in 1..Len(events) : events[i].type = "disconnect" /\ events[i].sock = n
    ELSE Len(events) + 1

\* C1: when a socket disconnects while the presence map holds its user under
\* another (fresher) socket id, the handler leaves that entry in place and the
\* broadcast it emits still lists the user.
C1_StaleDisconnectKeepsEntry ==
    [][\A n \in SocketNums :
          LET k == ToPropertyKey(sockets[n].userId)
          IN  (/\ DisconnectStep(n)
               /\ Truthy(sockets[n].userId)
               /\ HasKey(userSocketMap, k)
               /\ ObjGet(userSocketMap, k) # SocketId(n))
              => /\ ObjGet(userSocketMap', k) = ObjGet(userSocketMap, k)
                 /\ k \in Range(Last(emitted'))]_vars

\* C2: when the only connected socket of user U disconnects, U has no entry
\* afterwards, the entries of all other users are the ones held before, and
\* exactly one broadcast is emitted, whose payload does not list U.
C2_DisconnectRemovesExactlyThatUser ==
    [][\A n \in SocketNums :
          LET k == ToPropertyKey(sockets[n].userId)
          IN  (/\ DisconnectStep(n)
               /\ Truthy(sockets[n].userId)
               /\ OtherSocketOf(n) = {})
              => /\ ~HasKey(userSocketMap', k)
                 /\ EntrySet(userSocketMap') = {e \in EntrySet(userSocketMap) : e.key # k}
                 /\ Len(emitted') = Len(emitted) + 1
                 /\ k \notin Range(Last(emitted'))]_vars

\* a user's single socket has just disconnected: the broadcast before listed the
\* user, the one emitted now does not, and another user is still online
C2_Witness ==
    /\ Len(events) >= 3
    /\ Last(events).type = "disconnect"
    /\ Truthy(Last(events).userId)
    /\ OtherSocketOf(Last(events).sock) = {}
    /\ Last(events).userId \in Range(emitted[Len(emitted) - 1])
    /\ Last(events).userId \notin Range(Last(emitted))
    /\ userSocketMap # <<>>

\* C3: every connection and every disconnect event emits one broadcast, and the
\* payload of the latest broadcast is the key set of the presence map as the
\* event left it.
C3_BroadcastCarriesCurrentOnlineSet ==
    /\ Len(emitted) = Len(events)
    /\ Len(events) > 0 => Range(Last(emitted)) = KeySet(userSocketMap)

\* two users online after a connection that changed the membership
C3_Witness ==
    /\ Len(events) >= 2
    /\ Last(events).type = "connection"
    /\ Cardinality(KeySet(userSocketMap)) = 2
    /\ Range(Last(emitted)) # Range(emitted[Len(emitted) - 1])

\* C4: the presence map holds at most one entry per user id; when a user's two
\* latest connections had no disconnect between or after them, the lookup gives
\* the socket of the later one; and the lookup of a user without an entry gives
\* the absent value.
C4_OneSocketPerUserLastWriterWins ==
    /\ \A k \in KeySet(userSocketMap) :
          Cardinality({i \in 1..Len(userSocketMap) : userSocketMap[i].key = k}) = 1
    /\ \A i, j \in 1..Len(events) :
          (/\ i < j
           /\ events[i].type = "connection" /\ events[j].type = "connection"
           /\ Truthy(events[i].userId) /\ events[i].userId = events[j].userId
           /\ \A x \in i..Len(events) : events[x].type # "disconnect"
           /\ \A x \in (j + 1)..Len(events) : events[x].userId # events[j].userId)
          => getReceiverSocketId(events[j].userId) = SocketId(events[j].sock)
    /\ \A u \in UserIds :
          u \notin KeySet(userSocketMap) => getReceiverSocketId(u) = undefined

\* the same user connected on two sockets in a row and is looked up
C4_Witness ==
    /\ Len(events) >= 2
    /\ Last(events).type = "connection"
    /\ events[Len(events) - 1].type = "connection"
    /\ Truthy(Last(events).userId)
    /\ events[Len(events) - 1].userId = Last(events).userId
    /\ getReceiverSocketId(Last(events).userId) = SocketId(Last(events).sock)
    /\ \E u \in UserIds : getReceiverSocketId(u) = undefined

\* C5: a client has received exactly the broadcasts emitted from its own
\* connection event up to (not including) its disconnect event, in order, and
\* the first of them lists its own user id; nothing emitted before it connected
\* and nothing emitted from its disconnect on is delivered to it.
C5_DeliveredWhileConnectedNoReplay ==
    \A n \in SocketNums :
        IF sockets[n].status = "idle"
        THEN inbox[n] = <<>>
        ELSE /\ inbox[n] = [x \in 1..(DiscIdx(n) - ConnIdx(n)) |->
                               [seq |-> ConnIdx(n) + x - 1,
                                payload |-> emitted[ConnIdx(n) + x - 1]]]
             /\ Truthy(sockets[n].userId)
                   => ToPropertyKey(sockets[n].userId) \in Range(emitted[ConnIdx(n)])

\* a late joiner that missed earlier snapshots, got its own and a later one,
\* next to a client that has disconnected and got nothing since
C5_Witness ==
    \E n, m \in SocketNums :
        /\ sockets[n].status = "connected"
        /\ Truthy(sockets[n].userId)
        /\ Len(inbox[n]) >= 2
        /\ inbox[n][1].seq > 1
        /\ sockets[m].status = "disconnected"
        /\ Len(inbox[m]) < Len(emitted)
        /\ Last(inbox[n]).seq = Len(emitted)
(***************************************************************************)
(* HTTP handlers: request bodies are JSON objects (records whose fields    *)
(* may be absent), text and passwords are strings of characters.           *)
(***************************************************************************)
OptField(f, present, v) == IF present THEN f :> v ELSE EmptyObject
NonEmpty(obj, f) == Has(obj, f) /\ obj[f] # ""      \* if (obj.f), f a string
NonEmptyChars(obj, f) == Has(obj, f) /\ obj[f] # <<>>   \* the same for a string of characters

Whitespace == {" "}
RECURSIVE TrimStart(_)
TrimStart(str) ==
    IF str # <<>> /\ Head(str) \in Whitespace THEN TrimStart(Tail(str)) ELSE str
RECURSIVE TrimEnd(_)
TrimEnd(str) ==
    IF str # <<>> /\ str[Len(str)] \in Whitespace
    THEN TrimEnd(SubSeq(str, 1, Len(str) - 1))
    ELSE str
\* messageSchema.text: { type: String, trim: true }
Trim(str) == TrimEnd(TrimStart(str))

InternalServerError == [error |-> "Internal server error"]

\* identifiers bound in the module scope of message.controllers.js
MessageControllerBindings ==
    {"User", "Message", "getUsersForSidebar", "getMessages", "sendMessage"}

\* what cloudinary.uploader.upload(image) resolves to when the media host accepts it
SecureUrl(image) == [secure_url |-> "https://res.cloudinary.com/" \o image]

Texts == {<<"h", "i">>, <<" ", "h", "i">>}          \* req.body.text
Images == {"data:image/png;base64,AAAA"}            \* req.body.image
SendBodies ==
    {OptField("text", ht, t) @@ OptField("image", hi, i) :
        ht \in BOOLEAN, t \in Texts, hi \in BOOLEAN, i \in Images}
SendExt == [upload : {"ok", "fail"}, save : {"ok", "fail"}]
FindExt == [find : {"ok", "fail"}]

\* a query condition {f1: v1, f2: v2} that accepts a document when any one field agrees
MatchesAny(doc, cond) == \E f \in DOMAIN cond : Has(doc, f) /\ doc[f] = cond[f]

\* a query condition {f1: v1, f2: v2}: every listed field of the document equals
MatchesAll(doc, cond) == \A f \in DOMAIN cond : Has(doc, f) /\ doc[f] = cond[f]

\* Message.find({ $or: [c1, c2] }), in storage order
MessageFindOr(store, conds) ==
    SelectSeq(store, LAMBDA doc : \E i \in 1..Len(conds) : MatchesAll(doc, conds[i]))

\* a getMessages that asks only for the messages the caller sent
getMessagesOutboundOnly(store, myId, userToChatId, ext) ==
    IF ext.find = "fail"
    THEN [status |-> 500, body |-> InternalServerError]
    ELSE [status |-> 200,
          body |-> MessageFindOr(store,
                     <<[senderId |-> myId, receiverId |-> userToChatId]>>)]

\* getMessages: the response for caller myId (req.user._id) and peer req.params.id
getMessages(store, myId, userToChatId, ext) ==
    IF ext.find = "fail"
    THEN [status |-> 500, body |-> InternalServerError]
    ELSE [status |-> 200,
          body |-> MessageFindOr(store,
                     <<[senderId |-> myId, receiverId |-> userToChatId],
                       [senderId |-> userToChatId, receiverId |-> myId]>>)]

\* new Message({ senderId, receiverId, text, image: imageUrl }) as saved
NewMessage(store, senderId, receiverId, body, imageUrl) ==
    [_id |-> Len(store) + 1, senderId |-> senderId, receiverId |-> receiverId]
        @@ OptField("text", Has(body, "text"), IF Has(body, "text") THEN Trim(body.text) ELSE <<>>)
        @@ OptField("image", imageUrl # undefined, imageUrl)

\* whether evaluating cloudinary.uploader.upload(image) throws
UploadThrows(ext) ==
    "cloudinary" \notin MessageControllerBindings \/ ext.upload = "fail"

\* a sendMessage that saves the record first and uploads the image afterwards
sendMessageSaveFirst(store, senderId, receiverId, body, ext) ==
    LET wantsUpload == NonEmpty(body, "image")
        doc == NewMessage(store, senderId, receiverId, body, undefined)
    IN  IF ext.save = "fail"
        THEN [messages |-> store, status |-> 500, body |-> InternalServerError,
              uploaded |-> FALSE]
        ELSE IF wantsUpload /\ UploadThrows(ext)
        THEN [messages |-> Append(store, doc), status |-> 500,
              body |-> InternalServerError, uploaded |-> FALSE]
        ELSE [messages |-> Append(store, doc), status |-> 201, body |-> doc,
              uploaded |-> wantsUpload]

\* sendMessage: the store and the response it leaves
sendMessage(store, senderId, receiverId, body, ext) ==
    LET wantsUpload == NonEmpty(body, "image")
        imageUrl == IF wantsUpload THEN SecureUrl(body.image).secure_url ELSE undefined
        doc == NewMessage(store, senderId, receiverId, body, imageUrl)
    IN  IF wantsUpload /\ UploadThrows(ext)
        THEN [messages |-> store, status |-> 500, body |-> InternalServerError,
              uploaded |-> FALSE]
        ELSE IF ext.save = "fail"
        THEN [messages |-> store, status |-> 500, body |-> InternalServerError,
              uploaded |-> wantsUpload]
        ELSE [messages |-> Append(store, doc), status |-> 201, body |-> doc,
              uploaded |-> wantsUpload]

\* GET /api/messages/:id by an authenticated caller
GetMessages(caller, id, ext) ==
    /\ req' = [op |-> "getMessages", user |-> caller, id |-> id, ext |-> ext]
    /\ res' = getMessages(messages, caller, id, ext)
    /\ UNCHANGED <<messages, users>>
    /\ UNCHANGED <<presenceVars, sessionVars, signups>>

\* a send that replaces the collection by the new record
SendMessageOverwriting(caller, id, body, ext) ==
    /\ Len(messages) < MaxMessages
    /\ LET r == sendMessage(messages, caller, id, body, ext)
       IN  /\ messages' = IF r.status = 201 THEN <<r.body>> ELSE messages
           /\ res' = [status |-> r.status, body |-> r.body, uploaded |-> r.uploaded]
    /\ req' = [op |-> "sendMessage", user |-> caller, id |-> id, body |-> body,
               ext |-> ext]
    /\ UNCHANGED users
    /\ UNCHANGED <<presenceVars, sessionVars, signups>>

\* POST /api/messages/:id by an authenticated caller
SendMessage(caller, id, body, ext) ==
    /\ Len(messages) < MaxMessages
    /\ LET r == sendMessage(messages, caller, id, body, ext)
       IN  /\ messages' = r.messages
           /\ res' = [status |-> r.status, body |-> r.body, uploaded |-> r.uploaded]
    /\ req' = [op |-> "sendMessage", user |-> caller, id |-> id, body |-> body,
               ext |-> ext]
    /\ UNCHANGED users
    /\ UNCHANGED <<presenceVars, sessionVars, signups>>

NextChat ==
    \/ \E caller \in Callers, id \in UserIds, ext \in FindExt :
          GetMessages(caller, id, ext)
    \/ \E caller \in Callers, id \in UserIds, body \in SendBodies, ext \in SendExt :
          SendMessage(caller, id, body, ext)

SpecChat == Init /\ [][NextChat]_vars
(***************************************************************************)
(* Properties of the conversation service                                  *)
(***************************************************************************)
FindOk == [find |-> "ok"]
Between(m, a, b) ==
    \/ m.senderId = a /\ m.receiverId = b
    \/ m.senderId = b /\ m.receiverId = a

\* C6: on every reachable message store and for any two users A and B, the
\* messages getMessages returns to A for peer B are, as a set, the ones it
\* returns to B for peer A, and they include every stored message sent from A
\* to B or from B to A; the response a caller actually got is the set the
\* swapped call gives on the same store.
C6_GetMessagesSymmetric ==
    /\ \A a, b \in UserIds :
          LET ab == getMessages(messages, a, b, FindOk)
              ba == getMessages(messages, b, a, FindOk)
          IN  /\ ab.status = 200 /\ ba.status = 200
              /\ Range(ab.body) = Range(ba.body)
              /\ \A m \in Range(messages) : Between(m, a, b) => m \in Range(ab.body)
    /\ (req.op = "getMessages" /\ res.status = 200)
          => Range(res.body) = Range(getMessages(messages, req.id, req.user, FindOk).body)

\* a caller got a conversation holding a message in each direction
C6_Witness ==
    /\ req.op = "getMessages" /\ res.status = 200
    /\ req.user # req.id
    /\ \E m \in Range(res.body) : m.senderId = req.user /\ m.receiverId = req.id
    /\ \E m \in Range(res.body) : m.senderId = req.id /\ m.receiverId = req.user

\* C7: a successful getMessages(caller, peer) returns exactly the stored messages
\* between caller and peer, each once, so every returned message has the caller
\* as its sender or its receiver and none involves a third user.
C7_GetMessagesExactlyTheConversation ==
    (req.op = "getMessages" /\ res.status = 200)
        => /\ Range(res.body) = {m \in Range(messages) : Between(m, req.user, req.id)}
           /\ Len(res.body) = Cardinality(Range(res.body))
           /\ \A i \in 1..Len(res.body) :
                 /\ req.user \in {res.body[i].senderId, res.body[i].receiverId}
                 /\ {res.body[i].senderId, res.body[i].receiverId} \subseteq {req.user, req.id}

\* a conversation was returned while the store also holds a message of the caller
\* with a third user, which is left out
C7_Witness ==
    /\ req.op = "getMessages" /\ res.status = 200
    /\ res.body # <<>>
    /\ \E m \in Range(messages) :
          /\ req.user \in {m.senderId, m.receiverId}
          /\ ~Between(m, req.user, req.id)
          /\ m \notin Range(res.body)

\* C8: a sendMessage carrying a text, an image or both, with the media host and
\* the store working, answers 201 with the created message, and the record
\* persisted holds the text as given (or no text), and the uploaded image's URL
\* in place of the payload (or no image).
C8_SendMessagePersistsSuppliedFields ==
    (/\ req.op = "sendMessage"
     /\ req.ext.upload = "ok" /\ req.ext.save = "ok"
     /\ Has(req.body, "text") \/ NonEmpty(req.body, "image"))
        => /\ res.status = 201
           /\ messages # <<>>
           /\ res.body = Last(messages)
           /\ Last(messages).senderId = req.user
           /\ Last(messages).receiverId = req.id
           /\ Has(Last(messages), "text") <=> Has(req.body, "text")
           /\ Has(req.body, "text") => Last(messages).text = req.body.text
           /\ Has(Last(messages), "image") <=> NonEmpty(req.body, "image")
           /\ NonEmpty(req.body, "image")
                 => /\ Last(messages).image = SecureUrl(req.body.image).secure_url
                    /\ Last(messages).image # req.body.image

\* C9: a sendMessage whose image upload did not succeed, or whose save failed,
\* answers 500 with the generic body and leaves the message store as it was; a
\* record is added only when no image was supplied or its upload succeeded.
C9_SendMessageNoPartialWrite ==
    [][req'.op = "sendMessage"
          => /\ ((NonEmpty(req'.body, "image") /\ ~res'.uploaded)
                    \/ req'.ext.save = "fail")
                => /\ res'.status = 500
                   /\ res'.body = InternalServerError
                   /\ messages' = messages
             /\ messages' # messages
                => /\ NonEmpty(req'.body, "image") => res'.uploaded
                   /\ res'.status = 201]_vars

\* a send with an image whose upload did not succeed, on a store that holds a record
C9_Witness ==
    /\ req.op = "sendMessage"
    /\ NonEmpty(req.body, "image")
    /\ ~res.uploaded
    /\ res.status = 500
    /\ messages # <<>>
(***************************************************************************)
(* Signup                                                                  *)
(***************************************************************************)
Secret1 == <<"s", "e", "c", "r", "e", "t", "1">>
Short == <<"a", "b", "c">>
Emails == {"a@x.com", "b@x.com"}
UserIdNames == <<"u1", "u2", "u3">>                 \* the _id given to the n-th user
Salts == {"salt1", "salt2"}                         \* what bcrypt.genSalt(10) may return
NoCookie == [jwt |-> undefined]

SignupBodies ==
    [fullName : {"Ann", ""}, email : Emails \cup {""}, password : {Secret1, Short, <<>>}]
        \cup {[email |-> "a@x.com", password |-> Secret1]}
SignupExt == [findOne : {"ok", "fail"}, save : {"ok", "fail"}, salt : Salts]

\* bcrypt.hash(password, salt): a salted one-way image of the password
BcryptHash(password, salt) == [bcrypt |-> salt, of |-> password]

\* User.findOne({ email }): the first user with that email, or null (<<>>)
FindOneByEmail(store, email) ==
    IF \E i \in 1..Len(store) : store[i].email = email
    THEN <<store[CHOOSE i \in 1..Len(store) : store[i].email = email]>>
    ELSE <<>>

TokenTtlDays == 7                                   \* expiresIn: "7d"
CookieMaxAgeDays == 7                               \* maxAge: 7 * 24 * 60 * 60 * 1000

\* jwt.sign({ userId }, process.env.JWT_SECRET, { expiresIn: "7d" })
JwtSign(userId) == [userId |-> userId, exp |-> now + TokenTtlDays, sig |-> "JWT_SECRET"]

\* generateToken: the signed token, set as the jwt cookie (a cookie value is a
\* string: <<>> is the empty string, <<t>> the encoding of token t)
generateToken(userId) == [jwt |-> <<JwtSign(userId)>>, maxAge |-> CookieMaxAgeDays]

\* the browser applies a response's Set-Cookie to its cookie jar
StoreCookie(cookies, setCookie) ==
    IF Has(setCookie, "maxAge")
    THEN [jwt |-> setCookie.jwt, expires |-> now + setCookie.maxAge]
    ELSE cookies

\* the cookies the browser sends: a cookie past its expiry is not sent
JarCookies ==
    IF Has(jar, "jwt") /\ now < jar.expires THEN [jwt |-> jar.jwt] ELSE EmptyObject

SignupError(store, status, message) ==
    [users |-> store, status |-> status, body |-> [message |-> message],
     cookie |-> NoCookie]

\* a signup that does not look the email up before it saves
signupNoDuplicateCheck(store, body, ext) ==
    IF ~NonEmpty(body, "fullName") \/ ~NonEmpty(body, "email")
          \/ ~NonEmptyChars(body, "password")
    THEN SignupError(store, 400, "All fields are required")
    ELSE IF Len(body.password) < 6
    THEN SignupError(store, 400, "Password must be at least 6 characters")
    ELSE IF ext.findOne = "fail" \/ ext.save = "fail"
    THEN SignupError(store, 500, "Internal Server Error")
    ELSE LET newUser == [_id |-> UserIdNames[Len(store) + 1],
                         fullName |-> body.fullName, email |-> body.email,
                         password |-> BcryptHash(body.password, ext.salt),
                         profilePic |-> ""]
         IN  [users |-> Append(store, newUser), status |-> 201,
              body |-> [_id |-> newUser._id, fullName |-> newUser.fullName,
                        email |-> newUser.email, profilePic |-> newUser.profilePic],
              cookie |-> generateToken(newUser._id)]

\* signup: the user store, the response and the cookie it leaves
signup(store, body, ext) ==
    IF ~NonEmpty(body, "fullName") \/ ~NonEmpty(body, "email")
          \/ ~NonEmptyChars(body, "password")
    THEN SignupError(store, 400, "All fields are required")
    ELSE IF Len(body.password) < 6
    THEN SignupError(store, 400, "Password must be at least 6 characters")
    ELSE IF ext.findOne = "fail"
    THEN SignupError(store, 500, "Internal Server Error")
    ELSE IF FindOneByEmail(store, body.email) # <<>>
    THEN SignupError(store, 400, "Email already exists")
    ELSE IF ext.save = "fail"
    THEN SignupError(store, 500, "Internal Server Error")
    ELSE LET newUser == [_id |-> UserIdNames[Len(store) + 1],
                         fullName |-> body.fullName, email |-> body.email,
                         password |-> BcryptHash(body.password, ext.salt),
                         profilePic |-> ""]
         IN  [users |-> Append(store, newUser), status |-> 201,
              body |-> [_id |-> newUser._id, fullName |-> newUser.fullName,
                        email |-> newUser.email, profilePic |-> newUser.profilePic],
              cookie |-> generateToken(newUser._id)]

\* POST /api/auth/signup
Signup(body, ext) ==
    /\ Len(users) < Len(UserIdNames)
    /\ LET r == signup(users, body, ext)
       IN  /\ users' = r.users
           /\ res' = [status |-> r.status, body |-> r.body, cookie |-> r.cookie]
           /\ jar' = StoreCookie(jar, r.cookie)
    /\ req' = [op |-> "signup", body |-> body, ext |-> ext]
    /\ UNCHANGED <<messages, now, loggedOut, signups>>
    /\ UNCHANGED presenceVars

LoginBodies ==
    [email : Emails, password : {Secret1, Short}] \cup {[email |-> "a@x.com"]}
LoginExt == [findOne : {"ok", "fail"}]

\* a comparison that accepts every password
BcryptCompareAny(password, hash) == TRUE

\* bcrypt.compare(password, hash): the hash is an image of that password
BcryptCompare(password, hash) == hash.of = password

LoginReply(status, message) ==
    [status |-> status, body |-> [message |-> message], cookie |-> NoCookie]

\* login: the response and the cookie it leaves; bcrypt.compare rejects when
\* the password is not a string, which lands in the catch
login(store, body, ext) ==
    IF ext.findOne = "fail"
    THEN LoginReply(500, "Internal Server Error")
    ELSE LET found == FindOneByEmail(store, body.email)
         IN  IF found = <<>>
             THEN LoginReply(400, "Invalid credentials")
             ELSE IF ~Has(body, "password")
             THEN LoginReply(500, "Internal Server Error")
             ELSE IF ~BcryptCompare(body.password, found[1].password)
             THEN LoginReply(400, "Invalid credentials")
             ELSE [status |-> 200,
                   body |-> [_id |-> found[1]._id, fullName |-> found[1].fullName,
                             email |-> found[1].email,
                             profilePic |-> found[1].profilePic],
                   cookie |-> generateToken(found[1]._id)]

\* POST /api/auth/login
Login(body, ext) ==
    /\ res' = login(users, body, ext)
    /\ jar' = StoreCookie(jar, res'.cookie)
    /\ req' = [op |-> "login", body |-> body, ext |-> ext]
    /\ UNCHANGED <<users, messages, now, loggedOut, signups>>
    /\ UNCHANGED presenceVars

NextAuth ==
    \/ \E body \in SignupBodies, ext \in SignupExt : Signup(body, ext)
    \/ \E body \in LoginBodies, ext \in LoginExt : Login(body, ext)

SpecAuth == Init /\ [][NextAuth]_vars

(***************************************************************************)
(* Properties of signup                                                    *)
(***************************************************************************)
ValidSignup(body) ==
    /\ NonEmpty(body, "fullName") /\ NonEmpty(body, "email")
    /\ NonEmptyChars(body, "password") /\ Len(body.password) >= 6

\* C10: once a user with email e is stored (a signup with e has succeeded), a
\* signup with the same email and a valid name and password creates no user
\* record, leaves the stored records as they are and sets no session cookie; its
\* answer is 400 "Email already exists" whenever the email lookup completes (a
\* lookup that throws is answered with the generic 500).
C10_SecondSignupSameEmailConflicts ==
    [][(/\ req'.op = "signup"
        /\ ValidSignup(req'.body)
        /\ \E u \in Range(users) : u.email = req'.body.email)
          => /\ users' = users
             /\ res'.cookie = NoCookie
             /\ req'.ext.findOne = "ok"
                   => /\ res'.status = 400
                      /\ res'.body = [message |-> "Email already exists"]
             /\ req'.ext.findOne = "fail"
                   => /\ res'.status = 500
                      /\ res'.body = [message |-> "Internal Server Error"]]_vars

\* a valid signup was refused for an email that a stored user already has
C10_Witness ==
    /\ req.op = "signup"
    /\ ValidSignup(req.body)
    /\ \E u \in Range(users) : u.email = req.body.email
    /\ res.status = 400
    /\ res.body = [message |-> "Email already exists"]
    /\ res.cookie = NoCookie
    /\ Len(users) = 2

\* C12: a login with an email and a password whose lookup completes is answered
\* 200, with the user's public fields and a session cookie whose token carries
\* that user's id, exactly when a stored user has that email and a hash of
\* this password (under some salt) as its stored password; every other such login, unknown email or wrong password
\* alike, gets the one answer 400 "Invalid credentials" without a cookie. No
\* login changes the user store, and a lookup that throws is answered 500.
C12_LoginIffMatchAndFailuresIdentical ==
    [][(req'.op = "login" /\ Has(req'.body, "password"))
          => LET matching == {u \in Range(users) :
                                 /\ u.email = req'.body.email
                                 /\ \E salt \in Salts :
                                       u.password = BcryptHash(req'.body.password, salt)}
             IN  /\ users' = users
                 /\ req'.ext.findOne = "ok"
                       => /\ res'.status = 200 <=> matching # {}
                          /\ res'.status = 200
                                => \E u \in matching :
                                      /\ res'.body._id = u._id
                                      /\ res'.body.email = u.email
                                      /\ ~Has(res'.body, "password")
                                      /\ res'.cookie.jwt[1].userId = u._id
                                      /\ jar'.jwt = res'.cookie.jwt
                          /\ res'.status # 200
                                => /\ res' = LoginReply(400, "Invalid credentials")
                                   /\ jar' = jar
                 /\ req'.ext.findOne = "fail"
                       => res' = LoginReply(500, "Internal Server Error")]_vars

\* the second of two stored users has logged in with their password and holds
\* the session cookie of their id
C12_Witness ==
    /\ req.op = "login"
    /\ res.status = 200
    /\ Len(users) = 2
    /\ res.body._id = users[2]._id
    /\ jar.jwt[1].userId = users[2]._id

(***************************************************************************)
(* Signup requests that interleave at their await points                   *)
(***************************************************************************)
RaceBodies ==
    [fullName : {"Ann"}, email : Emails, password : {Secret1, Short}]
StoreOutcomes == {"ok", "fail"}                     \* the store answers, or is unreachable

\* userSchema.email: { unique: true }: the index refuses a second document with the email
DuplicateKey(store, doc) == \E i \in 1..Len(store) : store[i].email = doc.email

SignupReply(status, message) ==
    [status |-> status, body |-> [message |-> message], cookie |-> NoCookie]

\* the request arrives: the synchronous validation, up to the first await
SignupReceive(p, body) ==
    /\ signups[p].pc = "idle"
    /\ signups' = [signups EXCEPT ![p] =
          IF ~NonEmpty(body, "fullName") \/ ~NonEmpty(body, "email")
                \/ ~NonEmptyChars(body, "password")
          THEN [pc |-> "done", body |-> body, outage |-> FALSE,
                res |-> SignupReply(400, "All fields are required")]
          ELSE IF Len(body.password) < 6
          THEN [pc |-> "done", body |-> body, outage |-> FALSE,
                res |-> SignupReply(400, "Password must be at least 6 characters")]
          ELSE [pc |-> "findOne", body |-> body, outage |-> FALSE]]
    /\ UNCHANGED <<users, messages, req, res, sessionVars, presenceVars>>

\* await User.findOne({ email }) resolves, and the handler runs up to genSalt
SignupFindOne(p, outcome) ==
    /\ signups[p].pc = "findOne"
    /\ signups' = [signups EXCEPT ![p] =
          IF outcome = "fail"
          THEN [pc |-> "done", body |-> @.body, outage |-> TRUE,
                res |-> SignupReply(500, "Internal Server Error")]
          ELSE IF FindOneByEmail(users, @.body.email) # <<>>
          THEN [pc |-> "done", body |-> @.body, outage |-> FALSE,
                res |-> SignupReply(400, "Email already exists")]
          ELSE [pc |-> "genSalt", body |-> @.body, outage |-> FALSE]]
    /\ UNCHANGED <<users, messages, req, res, sessionVars, presenceVars>>

\* await bcrypt.genSalt(10) resolves
SignupGenSalt(p, salt) ==
    /\ signups[p].pc = "genSalt"
    /\ signups' = [signups EXCEPT ![p] =
          [pc |-> "hash", body |-> @.body, outage |-> FALSE, salt |-> salt]]
    /\ UNCHANGED <<users, messages, req, res, sessionVars, presenceVars>>

\* await bcrypt.hash(password, salt) resolves, new User(...) is built and save() is called
SignupHash(p) ==
    /\ signups[p].pc = "hash"
    /\ signups' = [signups EXCEPT ![p] =
          [pc |-> "save", body |-> @.body, outage |-> FALSE,
           hashedPassword |-> BcryptHash(@.body.password, @.salt)]]
    /\ UNCHANGED <<users, messages, req, res, sessionVars, presenceVars>>

\* await newUser.save() settles: a rejection (the store is unreachable, or the
\* unique index refuses the email) goes to the catch block; otherwise the token
\* is issued and 201 is sent
SignupSave(p, outcome) ==
    /\ signups[p].pc = "save"
    /\ Len(users) < Len(UserIdNames)
    /\ LET newUser == [_id |-> UserIdNames[Len(users) + 1],
                       fullName |-> signups[p].body.fullName,
                       email |-> signups[p].body.email,
                       password |-> signups[p].hashedPassword,
                       profilePic |-> ""]
       IN  IF outcome = "fail" \/ DuplicateKey(users, newUser)
           THEN /\ users' = users
                /\ signups' = [signups EXCEPT ![p] =
                      [pc |-> "done", body |-> @.body, outage |-> (outcome = "fail"),
                       res |-> SignupReply(500, "Internal Server Error")]]
           ELSE /\ users' = Append(users, newUser)
                /\ signups' = [signups EXCEPT ![p] =
                      [pc |-> "done", body |-> @.body, outage |-> FALSE,
                       res |-> [status |-> 201,
                                body |-> [_id |-> newUser._id,
                                          fullName |-> newUser.fullName,
                                          email |-> newUser.email,
                                          profilePic |-> newUser.profilePic],
                                cookie |-> generateToken(newUser._id)]]]
    /\ UNCHANGED <<messages, req, res, sessionVars, presenceVars>>

NextSignupRace ==
    \/ \E p \in Procs, body \in RaceBodies : SignupReceive(p, body)
    \/ \E p \in Procs, outcome \in StoreOutcomes : SignupFindOne(p, outcome)
    \/ \E p \in Procs, salt \in Salts : SignupGenSalt(p, salt)
    \/ \E p \in Procs : SignupHash(p)
    \/ \E p \in Procs, outcome \in StoreOutcomes : SignupSave(p, outcome)

SpecSignupRace == Init /\ [][NextSignupRace]_vars

\* C11: when two valid signup requests with the same email have both been
\* answered and the store was reachable for both, at most one user record has
\* that email, exactly one request got 201, and the other got 400 "Email
\* already exists".
C11_ConcurrentSignupOneConflict ==
    \A p, q \in Procs :
        (/\ p # q
         /\ signups[p].pc = "done" /\ signups[q].pc = "done"
         /\ ValidSignup(signups[p].body) /\ ValidSignup(signups[q].body)
         /\ signups[p].body.email = signups[q].body.email
         /\ ~signups[p].outage /\ ~signups[q].outage)
        => /\ Cardinality({i \in 1..Len(users) :
                              users[i].email = signups[p].body.email}) = 1
           /\ 201 \in {signups[p].res.status, signups[q].res.status}
           /\ signups[p].res.status = 201
                 => /\ signups[q].res.status = 400
                    /\ signups[q].res.body = [message |-> "Email already exists"]
(***************************************************************************)
(* Sessions: the protected route, logout, and the passing of time          *)
(***************************************************************************)
ForgedToken == [userId |-> "u1", exp |-> MaxClock + TokenTtlDays + 1, sig |-> "forged"]
\* a token the server signed for a user whose record is not in the store
GhostToken == [userId |-> "u9", exp |-> MaxClock + TokenTtlDays + 1, sig |-> "JWT_SECRET"]

\* cookies a request may carry besides the ones in the client's jar
OtherCookies ==
    {EmptyObject, [jwt |-> <<>>], [jwt |-> <<ForgedToken>>], [jwt |-> <<GhostToken>>]}
        \cup {[jwt |-> <<t>>] : t \in loggedOut}
UsersExt == [findById : {"ok", "fail"}, find : {"ok", "fail"}]
ClockSteps == {3, 4}                                \* days that pass between requests

\* the signups and logins that open sessions
SessionSignupBodies == [fullName : {"Ann"}, email : Emails, password : {Secret1}]
SessionSignupExt == [findOne : {"ok"}, save : {"ok"}, salt : {"salt1"}]
SessionLoginBodies == [email : Emails, password : {Secret1, Short}]

\* User.findById(id): the user with that _id, or null (<<>>)
FindById(store, id) ==
    IF \E i \in 1..Len(store) : store[i]._id = id
    THEN <<store[CHOOSE i \in 1..Len(store) : store[i]._id = id]>>
    ELSE <<>>

\* .select("-password")
SelectWithoutPassword(doc) == [f \in DOMAIN doc \ {"password"} |-> doc[f]]

\* jwt.verify(token, process.env.JWT_SECRET) returns the payload; it throws
\* when the signature does not match or the token has expired
JwtVerifies(token) == token.sig = "JWT_SECRET" /\ now < token.exp

Deny(status, message) ==
    [next |-> FALSE, status |-> status, body |-> [message |-> message]]

\* a middleware that also refuses the token held at the last logout
protectRouteRevoking(store, cookies, ext) ==
    IF ~Has(cookies, "jwt") \/ cookies.jwt = <<>>
    THEN Deny(401, "Unauthorized - No Token Provided")
    ELSE IF ~JwtVerifies(cookies.jwt[1]) \/ cookies.jwt[1] \in loggedOut
    THEN Deny(401, "Unauthorized - Invalid Token")
    ELSE IF ext.findById = "fail"
    THEN Deny(500, "Internal Server Error")
    ELSE LET found == FindById(store, cookies.jwt[1].userId)
         IN  IF found = <<>>
             THEN Deny(404, "User not found")
             ELSE [next |-> TRUE, user |-> SelectWithoutPassword(found[1])]

\* protectRoute: the refusal it sends, or next() with req.user. A throw of
\* jwt.verify or of User.findById lands in the catch; jwt.verify never returns
\* a falsy value, so the "Invalid Token" answer is never sent.
protectRoute(store, cookies, ext) ==
    IF ~Has(cookies, "jwt") \/ cookies.jwt = <<>>
    THEN Deny(401, "Unauthorized - No Token Provided")
    ELSE IF ~JwtVerifies(cookies.jwt[1])
    THEN Deny(500, "Internal Server Error")
    ELSE IF ext.findById = "fail"
    THEN Deny(500, "Internal Server Error")
    ELSE LET found == FindById(store, cookies.jwt[1].userId)
         IN  IF found = <<>>
             THEN Deny(404, "User not found")
             ELSE [next |-> TRUE, user |-> SelectWithoutPassword(found[1])]

\* a listing that does not leave the caller out
getUsersForSidebarWithSelf(store, reqUser, ext) ==
    IF ext.find = "fail"
    THEN [status |-> 500, body |-> InternalServerError]
    ELSE [status |-> 200,
          body |-> [i \in 1..Len(store) |-> SelectWithoutPassword(store[i])]]

\* getUsersForSidebar: User.find({ _id: { $ne: req.user._id } }).select("-password")
getUsersForSidebar(store, reqUser, ext) ==
    IF ext.find = "fail"
    THEN [status |-> 500, body |-> InternalServerError]
    ELSE LET NotCaller(u) == u._id # reqUser._id
             filteredUsers == SelectSeq(store, NotCaller)
         IN  [status |-> 200,
              body |-> [i \in 1..Len(filteredUsers) |->
                           SelectWithoutPassword(filteredUsers[i])]]

\* GET /api/message/users: protectRoute, then getUsersForSidebar. The client
\* sends the cookies of its jar; any other sender may present what it likes.
GetUsersForSidebar(from, cookies, ext) ==
    /\ from = "client" => cookies = JarCookies
    /\ LET p == protectRoute(users, cookies, ext)
       IN  res' = IF p.next
                  THEN getUsersForSidebar(users, p.user, ext)
                  ELSE [status |-> p.status, body |-> p.body]
    /\ req' = [op |-> "getUsers", from |-> from, cookies |-> cookies, ext |-> ext,
               at |-> now]
    /\ UNCHANGED <<users, messages, now, jar, loggedOut, signups>>
    /\ UNCHANGED presenceVars

\* a logout that sends no Set-Cookie
logoutKeepingCookie ==
    [status |-> 200, body |-> [message |-> "Logged out successfully"],
     cookie |-> NoCookie]

\* logout: res.cookie("jwt", "", { maxAge: 0 }) and the 200 answer
logout ==
    [status |-> 200, body |-> [message |-> "Logged out successfully"],
     cookie |-> [jwt |-> <<>>, maxAge |-> 0]]

\* POST /api/auth/logout
Logout ==
    /\ res' = logout
    /\ jar' = StoreCookie(jar, res'.cookie)
    /\ loggedOut' = IF Has(JarCookies, "jwt") /\ JarCookies.jwt # <<>>
                    THEN {jar.jwt[1]}
                    ELSE loggedOut
    /\ req' = [op |-> "logout"]
    /\ UNCHANGED <<users, messages, now, signups>>
    /\ UNCHANGED presenceVars

\* d days pass
Tick(d) ==
    /\ now + d <= MaxClock
    /\ now' = now + d
    /\ UNCHANGED <<users, messages, req, res, jar, loggedOut, signups>>
    /\ UNCHANGED presenceVars

NextSession ==
    \/ \E body \in SessionSignupBodies, ext \in SessionSignupExt : Signup(body, ext)
    \/ \E body \in SessionLoginBodies : Login(body, [findOne |-> "ok"])
    \/ Logout
    \/ \E from \in {"client", "other"}, cookies \in OtherCookies \cup {JarCookies},
          ext \in UsersExt : GetUsersForSidebar(from, cookies, ext)
    \/ \E d \in ClockSteps : Tick(d)

SpecSession == Init /\ [][NextSession]_vars

\* The whole server, each handler with a few representative requests
AllSendBodies == {[text |-> <<"h", "i">>]}
AllClockSteps == {4}

NextAll ==
    \/ Connection(1, "u1")
    \/ Disconnect(1)
    \/ \E body \in SessionSignupBodies, ext \in SessionSignupExt : Signup(body, ext)
    \/ \E body \in SessionLoginBodies : Login(body, [findOne |-> "ok"])
    \/ Logout
    \/ \E from \in {"client", "other"}, cookies \in OtherCookies \cup {JarCookies},
          ext \in UsersExt : GetUsersForSidebar(from, cookies, ext)
    \/ \E ext \in FindExt : GetMessages("u1", "u2", ext)
    \/ \E body \in AllSendBodies, ext \in SendExt : SendMessage("u1", "u2", body, ext)
    \/ \E d \in AllClockSteps : Tick(d)

SpecAll == Init /\ [][NextAll]_vars

Next == NextPresence \/ NextChat \/ NextAuth \/ NextSignupRace \/ NextSession

Spec == Init /\ [][Next]_vars
(***************************************************************************)
(* Properties of sessions                                                  *)
(***************************************************************************)
TokenPresented == Has(req.cookies, "jwt") /\ req.cookies.jwt # <<>>
TokenValid ==
    /\ TokenPresented
    /\ req.cookies.jwt[1].sig = "JWT_SECRET"
    /\ req.at < req.cookies.jwt[1].exp
CallerKnown ==
    TokenValid /\ \E u \in Range(users) : u._id = req.cookies.jwt[1].userId

\* C13: a request to the protected route is answered 401 when it carries no jwt
\* cookie and 401 when its token fails the signature or expiry check, 404 when
\* the token verifies but no stored user has the id it encodes, and reaches the
\* route handler (answer 200) only when the token verifies and the user exists.
C13_ProtectRouteStatuses ==
    req.op = "getUsers"
        => /\ ~TokenPresented => res.status = 401
           /\ (TokenPresented /\ ~TokenValid) => res.status = 401
           /\ (TokenValid /\ ~CallerKnown /\ req.ext.findById = "ok")
                 => res.status = 404
           /\ res.status = 200 => CallerKnown

\* C14: logout answers 200 and sets the jwt cookie to the empty value with
\* maxAge 0, after which the client's browser sends no jwt cookie; a request of
\* the client to the protected route that follows a logout, and every such
\* request made while the jar holds the emptied cookie (no login or signup has
\* replaced it), is answered 401 "Unauthorized - No Token Provided".
C14_LogoutThenProtectedRequestIs401 ==
    [][/\ req'.op = "logout"
          => /\ res'.status = 200
             /\ res'.body = [message |-> "Logged out successfully"]
             /\ res'.cookie = [jwt |-> <<>>, maxAge |-> 0]
             /\ JarCookies' = EmptyObject
       /\ (/\ req'.op = "getUsers" /\ req'.from = "client"
           /\ \/ req.op = "logout"
              \/ Has(jar, "jwt") /\ jar.jwt = <<>>)
          => /\ res'.status = 401
             /\ res'.body = [message |-> "Unauthorized - No Token Provided"]]_vars

\* the client held a session, logged out, and its next request to the protected
\* route was refused with 401
C14_Witness ==
    /\ req.op = "getUsers" /\ req.from = "client"
    /\ loggedOut # {}
    /\ Has(jar, "jwt") /\ jar.jwt = <<>>
    /\ res.status = 401

\* C15: a request of an authenticated caller whose store calls complete is
\* answered 200, and every 200 answer lists exactly the stored users other than
\* the caller, each once and without its password field; the caller's own
\* record is not in the list.
C15_SidebarExcludesCallerAndPasswords ==
    req.op = "getUsers"
        => /\ (CallerKnown /\ req.ext.findById = "ok" /\ req.ext.find = "ok")
                 => res.status = 200
           /\ res.status = 200
                 => LET caller == req.cookies.jwt[1].userId
                        others == {u \in Range(users) : u._id # caller}
                    IN  /\ Range(res.body) = {SelectWithoutPassword(u) : u \in others}
                        /\ Len(res.body) = Cardinality(others)
                        /\ \A r \in Range(res.body) :
                              r._id # caller /\ ~Has(r, "password")
                        /\ \A u \in Range(users) : Has(u, "password")

\* the second of two stored users asked for the list and got the first user only
C15_Witness ==
    /\ req.op = "getUsers"
    /\ res.status = 200
    /\ Len(users) = 2
    /\ req.cookies.jwt[1].userId = users[2]._id
    /\ Len(res.body) = 1
    /\ res.body[1]._id = users[1]._id

(***************************************************************************)
(* Properties of the whole server                                          *)
(***************************************************************************)
\* C16: in every step of the server the stored messages stay where they are,
\* field for field, and none is removed; the collection changes only in a
\* sendMessage that is answered 201, which appends one record.
C16_MessageStoreAppendOnly ==
    [][/\ Len(messages') >= Len(messages)
       /\ \A i \in 1..Len(messages) : messages'[i] = messages[i]
       /\ messages' # messages
             => /\ req'.op = "sendMessage"
                /\ res'.status = 201
                /\ messages' = Append(messages, res'.body)]_vars

\* the collection is full, and a signup, a logout, a socket's connect and
\* disconnect and a request to the protected route have run as well
C16_Witness ==
    /\ Len(messages) = MaxMessages
    /\ req.op = "getUsers"
    /\ users # <<>>
    /\ loggedOut # {}
    /\ sockets[1].status = "disconnected"

\* a step of the logout handler
LogoutStep == req'.op = "logout" /\ events' = events /\ now' = now

\* C19: a logout leaves the user store, the message store and the presence map
\* as they are, and the server keeps no record of the token: a later request
\* that presents the token the client held at logout, before the token's
\* expiry, passes protectRoute and is answered by the route handler (200 with
\* the other users when the listing completes).
C19_LogoutLeavesServerStateAndToken ==
    [][/\ LogoutStep
          => /\ users' = users /\ messages' = messages
             /\ userSocketMap' = userSocketMap /\ sockets' = sockets
       /\ \A t \in loggedOut' :
             (/\ req'.op = "getUsers"
              /\ req'.cookies = [jwt |-> <<t>>]
              /\ req'.at < t.exp
              /\ req'.ext.findById = "ok")
             => /\ req'.ext.find = "ok"
                   => /\ res'.status = 200
                      /\ \A r \in Range(res'.body) : r._id # t.userId
                /\ req'.ext.find = "fail"
                   => /\ res'.status = 500
                      /\ res'.body = InternalServerError]_vars

\* days after the client logged out, while a user is online and a message is
\* stored, a request presenting the token of the ended session was answered 200
C19_Witness ==
    /\ req.op = "getUsers" /\ req.from = "other"
    /\ \E t \in loggedOut : req.cookies = [jwt |-> <<t>>] /\ req.at > t.exp - TokenTtlDays
    /\ Has(jar, "jwt") /\ jar.jwt = <<>>
    /\ res.status = 200
    /\ userSocketMap # <<>>
    /\ messages # <<>>
(***************************************************************************)
(* Further properties of the presence tracker                              *)
(***************************************************************************)
\* C17: every entry of the presence map holds the id of a socket that is
\* connected (its disconnect handler has not run) and whose handshake userId is
\* the entry's key.
C17_EntriesPointToConnectedSockets ==
    \A e \in EntrySet(userSocketMap) :
        \E n \in SocketNums :
            /\ SocketId(n) = e.value
            /\ sockets[n].status = "connected"
            /\ Truthy(sockets[n].userId)
            /\ ToPropertyKey(sockets[n].userId) = e.key

\* a socket of u1 has disconnected and the map holds u1 under a later socket,
\* next to the entry of another user
C17_Witness ==
    /\ \E n, m \in SocketNums :
          /\ n < m
          /\ sockets[n].status = "disconnected" /\ sockets[n].userId = "u1"
          /\ sockets[m].status = "connected" /\ sockets[m].userId = "u1"
          /\ ObjGet(userSocketMap, "u1") = SocketId(m)
    /\ Len(userSocketMap) = 2

ConnectionStep(n) == sockets[n].status = "idle" /\ sockets'[n].status = "connected"

\* C18: the connect and the disconnect of a socket whose handshake query has no
\* userId leave the presence map as it is, and each emits one getOnlineUsers
\* broadcast listing the keys of that unchanged map.
C18_NoUserIdSocketLeavesMap ==
    [][\A n \in SocketNums :
          (/\ ConnectionStep(n) \/ DisconnectStep(n)
           /\ sockets'[n].userId = undefined)
          => /\ userSocketMap' = userSocketMap
             /\ emitted' = Append(emitted, ObjectKeys(userSocketMap))]_vars
====
